---- MODULE Spec2Model ----
(***************************************************************************)
(* Model of AnimEditor::AnimationEditor                                    *)
(* (src/animation/editor/animation_editor.cpp): the File menu commands,    *)
(* container navigation, the animation slot table and the input/constant   *)
(* tables of the edited ControllerResource.                                *)
(*                                                                         *)
(* One action is one GUI event handled during one frame.  The text fields   *)
(* that only edit a name in place (input, constant and set names) and the  *)
(* value widgets are left out: they touch none of the state below.         *)
(*                                                                         *)
(* Spec       the File menu, "Go up" and setContainer                      *)
(* SpecSlots  the "Animation slots" section, from an empty controller      *)
(* SpecInputs the "Inputs" and "Constants" sections                        *)
(***************************************************************************)
EXTENDS Integers, Sequences, FiniteSets, TLC

VARIABLES
    m_resource,       \* AnimationEditor::m_resource: identity of the edited ControllerResource
    m_container,      \* AnimationEditor::m_container: <<tree identity, node>> or NullContainer
    m_path,           \* AnimationEditor::m_path
    m_root,           \* identity of the container tree m_resource->getRoot() belongs to
    tree,             \* parent of every container of that tree (node 1 is the root)
    slots,            \* m_resource->getAnimationSlots()
    sets,             \* m_resource->getEngineResource()->m_sets_names
    anim_set,         \* m_resource->getEngineResource()->m_animation_set
    inputs,           \* m_input_decl.inputs[0 .. inputs_count-1]
    inputs_count,     \* m_input_decl.inputs_count
    constants,        \* m_input_decl.constants[0 .. constants_count-1]
    constants_count,  \* m_input_decl.constants_count
    corrupted,        \* an Add wrote behind the end of a fixed-size array
    next_obj,         \* number of objects allocated so far (object identities)
    freed,            \* identities of the objects that have been deleted
    written,          \* paths a controller has been written to so far
    last              \* what the last handler did (dialogs, file I/O, log)

vars == <<m_resource, m_container, m_path, m_root, tree, slots, sets, anim_set,
          inputs, inputs_count, constants, constants_count, corrupted,
          next_obj, freed, written, last>>

editorVars == <<m_resource, m_container, m_path, m_root, next_obj, freed, written>>
contentVars == <<tree, slots, sets, anim_set, inputs, inputs_count,
                 constants, constants_count, corrupted>>
declVars == <<inputs, inputs_count, constants, constants_count, corrupted>>
slotVars == <<slots, sets, anim_set>>

(***************************************************************************)
(* Bounds of the model.                                                    *)
(***************************************************************************)
MaxObjects == 6       \* objects allocated in one run
MaxNodes == 3         \* containers in a deserialized controller
MaxSets == 1          \* animation sets (columns)
MaxEntries == 2       \* entries of the animation set
MaxTypeEdits == 1     \* leading inputs / constants whose type combo is used

EmptyPath == ""
NoPath == "<none>"
Paths == {"a.act", "b.act"}
NullContainer == <<-1, -1>>
NoParent == -1

(***************************************************************************)
(* crc32: the engine hashes slot names with CRC-32.  Names are sequences   *)
(* of character codes, a hash is <<high 16 bits, low 16 bits>>.            *)
(***************************************************************************)
RECURSIVE Xor16(_, _)
Xor16(a, b) ==
    IF a = 0 THEN b
    ELSE IF b = 0 THEN a
    ELSE ((a + b) % 2) + 2 * Xor16(a \div 2, b \div 2)

Xor32(a, b) == <<Xor16(a[1], b[1]), Xor16(a[2], b[2])>>
Shr1(a) == <<a[1] \div 2, (a[2] \div 2) + (a[1] % 2) * 32768>>
Shr8(a) == <<a[1] \div 256, (a[2] \div 256) + (a[1] % 256) * 256>>
Crc32Poly == <<60856, 33568>>                  \* 0xEDB88320

RECURSIVE CrcShift(_, _)
CrcShift(c, n) ==
    IF n = 0 THEN c
    ELSE CrcShift(IF c[2] % 2 = 1 THEN Xor32(Shr1(c), Crc32Poly) ELSE Shr1(c), n - 1)

\* crc32_table[b]
crc32_table(b) == CrcShift(<<0, b>>, 8)

\* crc = (crc >> 8) ^ crc32_table[crc & 0xFF ^ *c] for every character, from 0xffffFFFF
RECURSIVE CrcBytes(_, _)
CrcBytes(crc, str) ==
    IF str = <<>> THEN crc
    ELSE CrcBytes(Xor32(Shr8(crc), crc32_table(Xor16(crc[2] % 256, Head(str)))), Tail(str))

\* return ~crc
crc32_of(str) ==
    LET crc == CrcBytes(<<65535, 65535>>, str) IN <<65535 - crc[1], 65535 - crc[2]>>

NameEmpty == <<>>
NameA == <<97>>                                              \* "a"
NamePlumless == <<112, 108, 117, 109, 108, 101, 115, 115>>   \* "plumless"
NameBuckeroo == <<98, 117, 99, 107, 101, 114, 111, 111>>     \* "buckeroo"
SlotNames == {NameEmpty, NameA, NamePlumless, NameBuckeroo}

HashEmpty == crc32_of(NameEmpty)
HashA == crc32_of(NameA)
HashPlumless == crc32_of(NamePlumless)
HashBuckeroo == crc32_of(NameBuckeroo)

\* crc32(const char*), computed once for every name of the model
crc32(str) ==
    CASE str = NameEmpty -> HashEmpty
      [] str = NameA -> HashA
      [] str = NamePlumless -> HashPlumless
      [] str = NameBuckeroo -> HashBuckeroo

(***************************************************************************)
(* The content of a ControllerResource, as far as the editor touches it.   *)
(***************************************************************************)
FLOAT == 0
INT == 1
BOOL == 2
InputTypes == {FLOAT, INT, BOOL}
InputsCapacity == 32        \* lengthOf(InputDecl::inputs)
ConstantsCapacity == 32     \* lengthOf(InputDecl::constants)

TypeSize(t) == IF t = BOOL THEN 1 ELSE 4

RECURSIVE SizeOf(_, _)
SizeOf(ins, n) == IF n = 0 THEN 0 ELSE SizeOf(ins, n - 1) + TypeSize(ins[n].type)

\* InputDecl::getSize()
getSize(ins, n) == SizeOf(ins, n)

\* InputDecl::recalculateOffsets()
recalculateOffsets(ins) ==
    [i \in DOMAIN ins |-> [ins[i] EXCEPT !.offset = SizeOf(ins, i - 1)]]

TreesOfSize(n) ==
    {t \in [1 .. n -> {NoParent} \cup (1 .. n)] :
        /\ t[1] = NoParent
        /\ \A k \in 2 .. n : t[k] \in 1 .. (k - 1)}

Trees == UNION {TreesOfSize(n) : n \in 1 .. MaxNodes}

\* ControllerResource::ControllerResource: a root state machine and nothing else
EmptyController ==
    [tree |-> <<NoParent>>, slots |-> <<>>, sets |-> <<>>, anim_set |-> <<>>,
     inputs |-> <<>>, inputs_count |-> 0, constants |-> <<>>, constants_count |-> 0]

\* a controller file with one slot bound in one set, one input and one constant
SampleController(t) ==
    [tree |-> t, slots |-> <<NameA>>, sets |-> <<"new set">>,
     anim_set |-> <<[set |-> 0, hash |-> crc32(NameA), animation |-> "walk.ani"]>>,
     inputs |-> <<[name |-> "speed", type |-> FLOAT, offset |-> 0]>>, inputs_count |-> 1,
     constants |-> <<[name |-> "", type |-> BOOL, value |-> TRUE]>>, constants_count |-> 1]

\* what ControllerResource::deserialize can leave in the resource when it succeeds
Deserializable ==
    {[EmptyController EXCEPT !.tree = t] : t \in Trees} \cup {SampleController(t) : t \in Trees}

IsContent(c) ==
    /\ tree = c.tree /\ slots = c.slots /\ sets = c.sets /\ anim_set = c.anim_set
    /\ inputs = c.inputs /\ inputs_count = c.inputs_count
    /\ constants = c.constants /\ constants_count = c.constants_count

SetContent(c) ==
    /\ tree' = c.tree /\ slots' = c.slots /\ sets' = c.sets /\ anim_set' = c.anim_set
    /\ inputs' = c.inputs /\ inputs_count' = c.inputs_count
    /\ constants' = c.constants /\ constants_count' = c.constants_count
    /\ corrupted' = FALSE

\* m_resource->getRoot()
getRoot == <<m_root, 1>>

\* the containers of the tree of the current resource
Containers == {<<m_root, n>> : n \in DOMAIN tree}

\* Container::getParent(): reading a deleted container can give anything
getParent(c) ==
    IF c \in Containers
    THEN {IF tree[c[2]] = NoParent THEN NullContainer ELSE <<m_root, tree[c[2]]>>}
    ELSE {NullContainer, c}

NoOp ==
    [op |-> "none", dialog |-> "none", confirmed |-> FALSE, read |-> NoPath,
     wrote |-> NoPath, deser |-> "none", log |-> FALSE, arg |-> <<>>]

(***************************************************************************)
(* AnimationEditor::AnimationEditor                                        *)
(***************************************************************************)
Init ==
    /\ m_path = EmptyPath
    /\ m_resource = 0
    /\ m_root = 1
    /\ next_obj = 2
    /\ freed = {}
    /\ IsContent(EmptyController)
    /\ corrupted = FALSE
    /\ m_container = getRoot
    /\ written = {}
    /\ last = NoOp

(***************************************************************************)
(* File menu                                                               *)
(***************************************************************************)
\* PlatformInterface::getSaveFilename / getOpenFilename returning false: the
\* buffer it was given is left alone or cleared
DialogCancelled(path) == {path, EmptyPath}

\* newController() without the last line, m_path = ""
newController_keeps_path ==
    /\ next_obj + 2 <= MaxObjects
    /\ freed' = freed \cup {m_resource, m_root}
    /\ m_resource' = next_obj
    /\ m_root' = next_obj + 1
    /\ next_obj' = next_obj + 2
    /\ SetContent(EmptyController)
    /\ m_container' = <<m_root', 1>>
    /\ last' = [NoOp EXCEPT !.op = "new"]
    /\ UNCHANGED <<written, m_path>>

newController ==
    /\ next_obj + 2 <= MaxObjects
    /\ freed' = freed \cup {m_resource, m_root}
    /\ m_resource' = next_obj
    /\ m_root' = next_obj + 1
    /\ next_obj' = next_obj + 2
    /\ SetContent(EmptyController)
    /\ m_container' = <<m_root', 1>>
    /\ m_path' = EmptyPath
    /\ last' = [NoOp EXCEPT !.op = "new"]
    /\ UNCHANGED written

\* the part of save() behind the early return; path is m_path at that point
save_write(op, path, dialog) ==
    /\ m_path' = path
    /\ written' = written \cup {path}
    /\ last' = [NoOp EXCEPT !.op = op, !.dialog = dialog,
                            !.confirmed = (dialog # "none"), !.wrote = path]
    /\ UNCHANGED <<m_resource, m_container, m_root, next_obj, freed>>
    /\ UNCHANGED contentVars

dialog_cancel(op, dialog) ==
    /\ m_path' \in DialogCancelled(m_path)
    /\ last' = [NoOp EXCEPT !.op = op, !.dialog = dialog]
    /\ UNCHANGED <<m_resource, m_container, m_root, next_obj, freed, written>>
    /\ UNCHANGED contentVars

save ==
    \/ /\ m_path # EmptyPath
       /\ save_write("save", m_path, "none")
    \/ /\ m_path = EmptyPath
       /\ \E p \in Paths : save_write("save", p, "save")
    \/ /\ m_path = EmptyPath
       /\ dialog_cancel("save", "save")

saveAs ==
    \/ \E p \in Paths : save_write("saveAs", p, "save")
    \/ dialog_cancel("saveAs", "save")

\* load() that keeps the resource whose deserialization failed
load_no_fallback(op, path, dialog) ==
    /\ m_path' = path
    /\ UNCHANGED written
    /\ \E ok \in BOOLEAN :
         /\ last' = [NoOp EXCEPT !.op = op, !.dialog = dialog,
                                 !.confirmed = (dialog # "none"), !.read = path,
                                 !.deser = IF ok THEN "ok" ELSE "fail"]
         /\ next_obj + 1 <= MaxObjects
         /\ \E c \in Deserializable : SetContent(c)
         /\ m_resource' = m_resource
         /\ freed' = freed \cup {m_root}
         /\ m_root' = next_obj
         /\ next_obj' = next_obj + 1
         /\ m_container' = <<m_root', 1>>

\* load(); path is m_path when load() is entered
load(op, path, dialog) ==
    /\ m_path' = path
    /\ UNCHANGED written
    /\ \E ok \in BOOLEAN :
         /\ last' = [NoOp EXCEPT !.op = op, !.dialog = dialog,
                                 !.confirmed = (dialog # "none"), !.read = path,
                                 !.deser = IF ok THEN "ok" ELSE "fail"]
         /\ IF ok
            THEN /\ next_obj + 1 <= MaxObjects
                 /\ \E c \in Deserializable : SetContent(c)
                 /\ m_resource' = m_resource
                 /\ freed' = freed \cup {m_root}
                 /\ m_root' = next_obj
                 /\ next_obj' = next_obj + 1
                 /\ m_container' = <<m_root', 1>>
            ELSE /\ next_obj + 2 <= MaxObjects
                 /\ freed' = freed \cup {m_resource, m_root}
                 /\ m_resource' = next_obj
                 /\ m_root' = next_obj + 1
                 /\ next_obj' = next_obj + 2
                 /\ SetContent(EmptyController)
                 /\ m_container' = <<m_root', 1>>

loadFromFile ==
    \/ \E p \in Paths : load("open", p, "open")
    \/ dialog_cancel("open", "open")

\* loadFromEntity() without the check of the component handle
loadFromEntity_unchecked ==
    \/ /\ last' = [NoOp EXCEPT !.op = "openEntity", !.arg = <<"no entity">>]
       /\ UNCHANGED editorVars
       /\ UNCHANGED contentVars
    \/ \E ok \in BOOLEAN :
         /\ m_path' = EmptyPath
         /\ next_obj + 1 <= MaxObjects
         /\ last' = [NoOp EXCEPT !.op = "openEntity", !.arg = <<"no controller">>,
                                 !.read = EmptyPath, !.deser = IF ok THEN "ok" ELSE "fail"]
         /\ \E c \in Deserializable : SetContent(c)
         /\ m_resource' = m_resource
         /\ freed' = freed \cup {m_root}
         /\ m_root' = next_obj
         /\ next_obj' = next_obj + 1
         /\ m_container' = <<m_root', 1>>
         /\ UNCHANGED written
    \/ \E src \in Paths \cup {EmptyPath} : load("openEntity", src, "none")

\* the selection is the world editor's: no entity, an entity without an
\* anim_controller component, or one with a controller of some source path
loadFromEntity ==
    \/ \E sel \in {"no entity", "no controller"} :
         /\ last' = [NoOp EXCEPT !.op = "openEntity", !.arg = <<sel>>]
         /\ UNCHANGED editorVars
         /\ UNCHANGED contentVars
    \/ \E src \in Paths \cup {EmptyPath} : load("openEntity", src, "none")

\* "Go up" with the menu item always enabled
goUp_always_enabled ==
    /\ \E p \in getParent(m_container) : m_container' = p
    /\ last' = [NoOp EXCEPT !.op = "goUp"]
    /\ UNCHANGED <<m_resource, m_path, m_root, next_obj, freed, written>>
    /\ UNCHANGED contentVars

goUp ==
    /\ \E p \in getParent(m_container) :
         /\ p # NullContainer
         /\ m_container' = p
    /\ last' = [NoOp EXCEPT !.op = "goUp"]
    /\ UNCHANGED <<m_resource, m_path, m_root, next_obj, freed, written>>
    /\ UNCHANGED contentVars

setContainer ==
    /\ \E c \in Containers : m_container' = c
    /\ last' = [NoOp EXCEPT !.op = "setContainer"]
    /\ UNCHANGED <<m_resource, m_path, m_root, next_obj, freed, written>>
    /\ UNCHANGED contentVars

(***************************************************************************)
(* animationSlotsGUI: one widget event per frame                           *)
(***************************************************************************)
NoAnimation == "<null>"
Animations == {"walk.ani", NoAnimation}     \* what manager->load(Path(tmp)) returns

\* Array::find(predicate) >= 0
exists(name) == \E k \in DOMAIN slots : slots[k] = name

\* Array::erase(index)
erase(arr, i) == [k \in 1 .. (Len(arr) - 1) |-> IF k < i THEN arr[k] ELSE arr[k + 1]]

\* Array::eraseItems(predicate) with the predicate val.hash == slot_hash
eraseItems(arr, slot_hash) == SelectSeq(arr, LAMBDA val : val.hash # slot_hash)

\* for (auto& entry : engine_anim_set) if (entry.hash == old_hash) entry.hash = new_hash;
rehash(arr, old_hash, new_hash) ==
    [k \in DOMAIN arr |-> IF arr[k].hash = old_hash
                          THEN [arr[k] EXCEPT !.hash = new_hash]
                          ELSE arr[k]]

\* index of the first entry with e.set == j && e.hash == slot_hash, 0 for nullptr
findEntry(arr, j, slot_hash) ==
    LET hits == {k \in DOMAIN arr : arr[k].set = j /\ arr[k].hash = slot_hash}
    IN  IF hits = {} THEN 0 ELSE CHOOSE k \in hits : \A h \in hits : k <= h

\* the rename without the search for an existing slot of that name
renameSlot_unchecked(i, slot_cstr) ==
    /\ i \in DOMAIN slots
    /\ anim_set' = rehash(anim_set, crc32(slots[i]), crc32(slot_cstr))
    /\ slots' = [slots EXCEPT ![i] = slot_cstr]
    /\ last' = [NoOp EXCEPT !.op = "rename"]
    /\ UNCHANGED sets
    /\ UNCHANGED <<editorVars, tree, declVars>>

\* Enter in the name field of row i, the field holding slot_cstr
renameSlot(i, slot_cstr) ==
    /\ i \in DOMAIN slots
    /\ IF exists(slot_cstr)
       THEN /\ last' = [NoOp EXCEPT !.op = "rename", !.log = TRUE]
            /\ UNCHANGED slotVars
       ELSE /\ anim_set' = rehash(anim_set, crc32(slots[i]), crc32(slot_cstr))
            /\ slots' = [slots EXCEPT ![i] = slot_cstr]
            /\ last' = [NoOp EXCEPT !.op = "rename"]
            /\ UNCHANGED sets
    /\ UNCHANGED <<editorVars, tree, declVars>>

\* "x" that erases the slot and leaves the animation set alone
deleteSlot_keeps_entries(i) ==
    /\ i \in DOMAIN slots
    /\ slots' = erase(slots, i)
    /\ last' = [NoOp EXCEPT !.op = "delete"]
    /\ UNCHANGED <<editorVars, tree, declVars, sets, anim_set>>

\* button "x" of row i
deleteSlot(i) ==
    /\ i \in DOMAIN slots
    /\ slots' = erase(slots, i)
    /\ anim_set' = eraseItems(anim_set, crc32(slots[i]))
    /\ last' = [NoOp EXCEPT !.op = "delete"]
    /\ UNCHANGED <<editorVars, tree, declVars, sets>>

\* resourceInput of row i, column j (0-based as in the code) giving animation
assignAnimation(i, j, animation) ==
    /\ i \in DOMAIN slots
    /\ j \in 0 .. (Len(sets) - 1)
    /\ LET slot_hash == crc32(slots[i])
           entry == findEntry(anim_set, j, slot_hash)
       IN  IF entry # 0
           THEN anim_set' = [anim_set EXCEPT ![entry].animation = animation]
           ELSE /\ Len(anim_set) < MaxEntries
                /\ anim_set' = Append(anim_set,
                       [set |-> j, hash |-> slot_hash, animation |-> animation])
    /\ last' = [NoOp EXCEPT !.op = "assign"]
    /\ UNCHANGED <<editorVars, tree, declVars, slots, sets>>

\* button "Add slot (row)"
addSlot ==
    /\ IF exists(NameEmpty)
       THEN /\ last' = [NoOp EXCEPT !.op = "addSlot", !.log = TRUE]
            /\ UNCHANGED slots
       ELSE /\ slots' = Append(slots, NameEmpty)
            /\ last' = [NoOp EXCEPT !.op = "addSlot"]
    /\ UNCHANGED <<editorVars, tree, declVars, sets, anim_set>>

\* button "Add set (column)"
addSet ==
    /\ Len(sets) < MaxSets
    /\ sets' = Append(sets, "new set")
    /\ last' = [NoOp EXCEPT !.op = "addSet"]
    /\ UNCHANGED <<editorVars, tree, declVars, slots, anim_set>>

RenameSlot == \E i \in DOMAIN slots : \E name \in SlotNames : renameSlot(i, name)
DeleteSlot == \E i \in DOMAIN slots : deleteSlot(i)
AssignAnimation ==
    \E i \in DOMAIN slots : \E j \in 0 .. (Len(sets) - 1) : \E a \in Animations :
        assignAnimation(i, j, a)

NextSlots ==
    \/ addSlot
    \/ addSet
    \/ RenameSlot
    \/ DeleteSlot
    \/ AssignAnimation

SpecSlots == Init /\ [][NextSlots]_vars

(***************************************************************************)
(* inputsGUI / constantsGUI                                                *)
(***************************************************************************)
\* button "Add" of the Inputs section.  The code writes
\* inputs[inputs_count] unconditionally: behind the last element of the
\* array the write lands on whatever follows it in InputDecl.
addInput ==
    /\ ~corrupted
    /\ IF inputs_count < InputsCapacity
       THEN /\ inputs' = Append(inputs,
                   [name |-> "", type |-> BOOL, offset |-> getSize(inputs, inputs_count)])
            /\ inputs_count' = inputs_count + 1
            /\ UNCHANGED corrupted
       ELSE /\ corrupted' = TRUE
            /\ inputs_count' \in 0 .. (InputsCapacity + 1)
            /\ UNCHANGED inputs
    /\ last' = [NoOp EXCEPT !.op = "addInput"]
    /\ UNCHANGED <<editorVars, tree, slotVars, constants, constants_count>>

\* button "Add##add_const"
addConstant ==
    /\ ~corrupted
    /\ IF constants_count < ConstantsCapacity
       THEN /\ constants' = Append(constants, [name |-> "", type |-> BOOL, value |-> TRUE])
            /\ constants_count' = constants_count + 1
            /\ UNCHANGED corrupted
       ELSE /\ corrupted' = TRUE
            /\ constants_count' \in 0 .. (ConstantsCapacity + 1)
            /\ UNCHANGED constants
    /\ last' = [NoOp EXCEPT !.op = "addConstant"]
    /\ UNCHANGED <<editorVars, tree, slotVars, inputs, inputs_count>>

\* Combo "##type" of input i changing the type to t
setInputType(i, t) ==
    /\ ~corrupted
    /\ i \in 1 .. inputs_count
    /\ inputs[i].type # t
    /\ inputs' = recalculateOffsets([inputs EXCEPT ![i].type = t])
    /\ last' = [NoOp EXCEPT !.op = "inputType"]
    /\ UNCHANGED <<editorVars, tree, slotVars, inputs_count, constants, constants_count, corrupted>>

\* the type Combo of constant i changing the type to t
setConstantType(i, t) ==
    /\ ~corrupted
    /\ i \in 1 .. constants_count
    /\ constants[i].type # t
    /\ constants' = [constants EXCEPT ![i].type = t]
    /\ inputs' = recalculateOffsets(inputs)
    /\ last' = [NoOp EXCEPT !.op = "constantType"]
    /\ UNCHANGED <<editorVars, tree, slotVars, inputs_count, constants_count, corrupted>>

SetInputType == \E i \in 1 .. MaxTypeEdits : \E t \in InputTypes : setInputType(i, t)
SetConstantType == \E i \in 1 .. MaxTypeEdits : \E t \in InputTypes : setConstantType(i, t)

NextInputs ==
    \/ addInput
    \/ addConstant
    \/ SetInputType
    \/ SetConstantType

SpecInputs == Init /\ [][NextInputs]_vars

Next ==
    \/ newController
    \/ save
    \/ saveAs
    \/ loadFromFile
    \/ loadFromEntity
    \/ goUp
    \/ setContainer

Spec == Init /\ [][Next]_vars

(***************************************************************************)
(* Properties                                                              *)
(***************************************************************************)
Range(seq) == {seq[k] : k \in DOMAIN seq}

IsLoad(l) == l.op \in {"open", "openEntity"} /\ l.read # NoPath

\* C1: a load() whose deserialization fails deletes the previous resource and
\* leaves a freshly constructed, empty ControllerResource with m_container at
\* its root; a load() whose deserialization succeeds keeps m_resource; either
\* way load() ends with m_container == m_resource->getRoot().
C1_LoadFallsBackToEmpty ==
    [][IsLoad(last') =>
          /\ last'.deser \in {"ok", "fail"}
          /\ m_container' = getRoot'
          /\ m_root' \notin freed'
          /\ last'.deser = "fail" =>
                /\ m_resource \in freed'
                /\ m_root \in freed'
                /\ m_resource' >= next_obj
                /\ m_resource' \notin freed'
                /\ m_root' >= next_obj
                /\ IsContent(EmptyController)'
          /\ last'.deser = "ok" =>
                /\ m_resource' = m_resource
                /\ m_resource \notin freed']_vars

C1_Witness ==
    /\ last.op = "open"
    /\ last.deser = "fail"
    /\ m_resource \notin freed
    /\ (m_resource - 1) \in freed
    /\ m_container = getRoot

\* C2: slot names are pairwise distinct in every state; a rename that goes
\* through gives the slot a name no slot had, an Add slot that goes through
\* happens without an empty-named slot, and a rejected rename or Add slot is
\* logged and changes neither the slots nor the animation set.
C2_SlotNamesDistinct ==
    /\ [](\A a, b \in DOMAIN slots : slots[a] = slots[b] => a = b)
    /\ [][/\ (last'.op \in {"rename", "addSlot"} /\ last'.log) =>
                /\ slots' = slots
                /\ anim_set' = anim_set
                /\ sets' = sets
          /\ (last'.op = "rename" /\ ~last'.log) =>
                \E i \in DOMAIN slots :
                    /\ slots'[i] \notin Range(slots)
                    /\ slots' = [slots EXCEPT ![i] = slots'[i]]
          /\ (last'.op = "addSlot" /\ ~last'.log) =>
                /\ NameEmpty \notin Range(slots)
                /\ slots' = Append(slots, NameEmpty)
          /\ (last'.op = "addSlot" /\ NameEmpty \in Range(slots)) => last'.log]_vars

C2_Witness ==
    /\ last.op = "rename"
    /\ last.log
    /\ Len(slots) = Cardinality(SlotNames)

\* C3: New empties m_path; m_path only becomes non-empty by a confirmed dialog
\* or by opening a controller; Save with an empty path shows the save dialog
\* and writes nothing when it is cancelled; Save with a non-empty path writes
\* to that path without a dialog; Save As always shows the dialog; every write
\* goes to the path m_path holds afterwards.
C3_SavePrompts ==
    [][/\ last'.op = "new" => m_path' = EmptyPath
       /\ (m_path = EmptyPath /\ m_path' # EmptyPath) =>
             \/ last'.dialog # "none" /\ last'.confirmed
             \/ IsLoad(last')
       /\ (last'.op = "save" /\ m_path = EmptyPath) =>
             /\ last'.dialog = "save"
             /\ ~last'.confirmed => (last'.wrote = NoPath /\ written' = written)
       /\ (last'.op = "save" /\ m_path # EmptyPath) =>
             /\ last'.dialog = "none"
             /\ last'.wrote = m_path
             /\ m_path' = m_path
       /\ last'.op = "saveAs" =>
             /\ last'.dialog = "save"
             /\ ~last'.confirmed => (last'.wrote = NoPath /\ written' = written)
       /\ last'.wrote # NoPath =>
             /\ last'.wrote = m_path'
             /\ m_path' # EmptyPath
             /\ written' = written \cup {m_path'}
       /\ last'.wrote = NoPath => written' = written]_vars

C3_Witness ==
    /\ last.op = "save"
    /\ last.dialog = "save"
    /\ ~last.confirmed
    /\ m_resource # 0
    /\ written = {}

ControllerUntouched ==
    /\ m_resource' = m_resource
    /\ m_container' = m_container
    /\ m_root' = m_root
    /\ freed' = freed
    /\ UNCHANGED contentVars

\* C4: Open, Save and Save As with a cancelled dialog, and Open from selected
\* entity without a selected entity or without an anim_controller component,
\* leave m_resource and m_container as they are and read and write no file;
\* Save and Save As that go through leave m_resource and m_container as they are.
C4_FailedCommandsChangeNothing ==
    [][/\ (last'.dialog # "none" /\ ~last'.confirmed) =>
             /\ ControllerUntouched
             /\ last'.read = NoPath /\ last'.wrote = NoPath
             /\ written' = written
       /\ (last'.op = "openEntity" /\ last'.arg # <<>>) =>
             /\ ControllerUntouched
             /\ last'.read = NoPath /\ last'.wrote = NoPath
             /\ written' = written
       /\ last'.op \in {"save", "saveAs"} => ControllerUntouched]_vars

C4_Witness ==
    /\ last.op = "openEntity"
    /\ last.arg = <<"no controller">>
    /\ m_container # getRoot
    /\ slots # <<>>

\* C5: m_container is never null and is always a container of the tree of the
\* current m_resource, never one of a deleted object; Go up is enabled exactly
\* when the current container has a parent and moves to that parent.
C5_ContainerInCurrentTree ==
    /\ [](/\ m_container # NullContainer
          /\ m_container \in Containers
          /\ m_container[1] \notin freed
          /\ m_resource \notin freed
          /\ (ENABLED goUp) <=> (tree[m_container[2]] # NoParent))
    /\ [][last'.op = "goUp" =>
             /\ tree[m_container[2]] # NoParent
             /\ m_container' = <<m_root, tree[m_container[2]]>>
             /\ m_container' # NullContainer]_vars

C5_Witness ==
    /\ last.op = "goUp"
    /\ m_container # getRoot
    /\ freed # {}

\* C6: an accepted rename moves every entry with the hash of the old name to
\* the hash of the new name, set and animation kept, and changes no entry of
\* another slot, nor the number of entries, the other slots or the sets.
C6_RenameKeepsBindings ==
    [][(last'.op = "rename" /\ ~last'.log) =>
          \E i \in DOMAIN slots :
              /\ slots' = [slots EXCEPT ![i] = slots'[i]]
              /\ sets' = sets
              /\ Len(anim_set') = Len(anim_set)
              /\ \A k \in DOMAIN anim_set :
                    /\ anim_set[k].hash = crc32(slots[i]) =>
                          anim_set'[k] = [anim_set[k] EXCEPT !.hash = crc32(slots'[i])]
                    /\ (\E m \in DOMAIN slots \ {i} : anim_set[k].hash = crc32(slots[m])) =>
                          anim_set'[k] = anim_set[k]]_vars

\* C7: every entry of the animation set carries the hash of the name of an
\* existing slot and the index of an existing set; deleting a slot removes
\* that slot and exactly the entries carrying its hash.
C7_NoOrphanedEntries ==
    /\ [](\A k \in DOMAIN anim_set :
             /\ \E i \in DOMAIN slots : anim_set[k].hash = crc32(slots[i])
             /\ anim_set[k].set \in 0 .. (Len(sets) - 1))
    /\ [][last'.op = "delete" =>
             \E i \in DOMAIN slots :
                 /\ Len(slots') = Len(slots) - 1
                 /\ \A k \in DOMAIN slots' : slots'[k] = IF k < i THEN slots[k] ELSE slots[k + 1]
                 /\ anim_set' = SelectSeq(anim_set, LAMBDA e : e.hash # crc32(slots[i]))
                 /\ sets' = sets]_vars

C7_Witness ==
    /\ last.op = "delete"
    /\ slots # <<>>
    /\ anim_set # <<>>

\* C8: inputs_count and constants_count never exceed the capacity of their
\* arrays; an Add appends one element (input: empty name, BOOL, offset the
\* size of the declaration before; constant: empty name, BOOL, true), adds one
\* to the count and leaves the elements before it as they were.
C8_TablesWithinStorage ==
    /\ [](inputs_count <= InputsCapacity /\ constants_count <= ConstantsCapacity)
    /\ [][/\ last'.op = "addInput" =>
                /\ inputs_count' = inputs_count + 1
                /\ inputs' = Append(inputs,
                       [name |-> "", type |-> BOOL, offset |-> SizeOf(inputs, inputs_count)])
          /\ last'.op = "addConstant" =>
                /\ constants_count' = constants_count + 1
                /\ constants' = Append(constants, [name |-> "", type |-> BOOL, value |-> TRUE])]_vars

====
